---- MODULE Spec2Model ----
(***************************************************************************)
(* Model of the TSDF++ controller (tsdf_plusplus_ros Controller): the      *)
(* per-frame pipeline segmentPointcloudCallback -> processSegmentPointcloud*)
(* -> integrateFrame (assignObjectIds, integrateSemanticClasses,           *)
(* trackObjects, integrateSegment) -> clearFrame -> publishReward ->       *)
(* publishMap, the mesh timer, the service callbacks and the reset         *)
(* subscriber, with the two mutexes map_mutex_ and mesh_layer_mutex_.      *)
(*                                                                         *)
(* Map, ObjectVolume, Segment, Integrator, ICP and MOMeshIntegrator are    *)
(* used by the controller but their code is not part of the sources at     *)
(* hand; they are modelled from the design document (sections 3, 4, 6).    *)
(***************************************************************************)
EXTENDS Integers, Sequences, FiniteSets, TLC

(* ------------------------------ bounds --------------------------------- *)
\* Messages delivered to segmentPointcloudCallback over a run.
MaxMsgs == 2
\* Segments carried by one SegmentedPointCloud message.
MaxSegs == 2
\* Voxel blocks of the global map layer (the ownership index).
NumBlocks == 2
\* Rigid transforms are abstracted to the cyclic group Z_PoseMod.
PoseMod == 2
\* Object identities a ground-truth segmentation source may supply.
MaxGtId == 2
\* Voxels of one block of the global map layer.
VoxelsPerBlock == 2

(* ------------------------- program constants --------------------------- *)
\* trackObjects: segments with more points than this are not tracked.
kMaxTrackedPoints == 100000
\* The semantic class that means "not annotated".
BackgroundClass == 0
\* ObjectID 0: unknown / unassigned.
NoObject == 0

Threads == {"frame", "timer", "admin"}
Blocks == 1..NumBlocks
SemanticClasses == {BackgroundClass, 1}
PointCounts == {1, kMaxTrackedPoints + 1}

(* ------------------------- rigid transforms ---------------------------- *)
\* kindr Transformation: a rigid transform, here an element of Z_PoseMod.
Transformation == 0..(PoseMod - 1)
Identity == 0
Compose(a, b) == (a + b) % PoseMod
\* Eigen::Matrix4f: a 4x4 matrix; rigid part g, and whether the rotation
\* block has drifted from orthonormal (numerical error of a registration).
Matrix4f == [g : Transformation, drift : BOOLEAN]
Matrix4fIdentity == [g |-> Identity, drift |-> FALSE]
\* Eigen inverse(): the drift of the rotation block is inherited.
MatrixInverse(m) == [g |-> (PoseMod - m.g) % PoseMod, drift |-> m.drift]
\* Transformation().constructAndRenormalizeRotation(G_T_O_S): projects the
\* rotation block back to an orthonormal one.
constructAndRenormalizeRotation(m) == m.g

VARIABLES
  using_ground_truth_segmentation_,  \* configuration, fixed at construction
  object_tracking_enabled_,
  ground_truth_tracking_,
  oob_read_traps,            \* build: does vector::operator[] past the end trap
  object_volumes,            \* Map: ObjectID -> ObjectVolume
  next_id,                   \* Map: identity allocator
  map_layer,                 \* Map: ownership index, block -> active object
  frame_number_,
  current_frame_segments_,
  current_frame_movements_,
  object_segment_overlap_,
  object_merged_segments_,
  segments_alive,            \* Segment objects created and not yet deleted
  mesh_layer_,               \* does the mesh layer hold any mesh
  mesh_layer_updated_,
  map_mutex_,                \* holder of map_mutex_, or "none"
  mesh_layer_mutex_,         \* holder of *mesh_layer_mutex_, or "none"
  pc,                        \* position of each callback thread
  track_i,                   \* loop index of trackObjects
  track_T,                   \* T_O_S of the running trackObjects iteration
  track_id,                  \* segment->object_id_ of that iteration
  integrate_j,               \* loop index of the fusion loop
  msgs,                      \* messages received so far
  lookup_ok,                 \* did lookupTransformTF succeed for this message
  calls,                     \* calls made by the running frame callback
  pre,                       \* Map and frame_number_ when the message arrived
  reward_pub_,               \* the Reward the running frame callback published
  stale,                     \* frame buffers were freed under the frame callback
  crashed                    \* the process has aborted

config == <<using_ground_truth_segmentation_, object_tracking_enabled_,
            ground_truth_tracking_, oob_read_traps>>
map_vars == <<object_volumes, next_id, map_layer>>
frame_bufs == <<current_frame_segments_, current_frame_movements_,
                object_segment_overlap_, object_merged_segments_, segments_alive>>
mesh_vars == <<mesh_layer_, mesh_layer_updated_>>
loop_vars == <<track_i, track_T, track_id, integrate_j>>
hist_vars == <<msgs, lookup_ok, calls, pre, reward_pub_>>
vars == <<config, map_vars, frame_bufs, mesh_vars, frame_number_, map_mutex_,
          mesh_layer_mutex_, pc, loop_vars, hist_vars, stale, crashed>>

(* ------------------------------ helpers -------------------------------- *)
RECURSIVE SetToSortedSeq(_)
SetToSortedSeq(S) ==
  IF S = {} THEN <<>>
  ELSE LET m == CHOOSE x \in S : \A y \in S : x <= y
       IN <<m>> \o SetToSortedSeq(S \ {m})

Ev(op, id, i, T) == [op |-> op, id |-> id, i |-> i, T |-> T]
Log(e) == calls' = Append(calls, e)

NoSnapshot == [taken |-> FALSE]
NoReward == [published |-> FALSE]
Snapshot == [taken |-> TRUE, object_volumes |-> object_volumes,
             next_id |-> next_id, map_layer |-> map_layer,
             frame_number_ |-> frame_number_]

AllIdle == \A t \in Threads : pc[t] = "idle"
\* A callback starts when its thread is idle; with one spinner thread
\* (serial) callbacks are dispatched one at a time.
CanStart(t, serial) ==
  /\ ~crashed
  /\ pc[t] = "idle"
  /\ serial => AllIdle
At(t, l) == ~crashed /\ pc[t] = l
Goto(t, l) == pc' = [pc EXCEPT ![t] = l]

(* ------------------------------ mutexes -------------------------------- *)
\* std::lock_guard<std::mutex>: blocks until the mutex is free.
CanLockAlways(m) == TRUE

CanLock(m) == m = "none"

\* std::lock_guard on map_mutex_ ("map") or *mesh_layer_mutex_ ("mesh"),
\* taken by thread t.
LockGuard(m, t) ==
  IF m = "mesh"
  THEN /\ CanLock(mesh_layer_mutex_)
       /\ mesh_layer_mutex_' = t
       /\ UNCHANGED map_mutex_
  ELSE /\ CanLock(map_mutex_)
       /\ map_mutex_' = t
       /\ UNCHANGED mesh_layer_mutex_

(* --------------------------- Map (registry) ---------------------------- *)
\* A new, empty ObjectVolume: identity pose, no fused geometry.
NewObjectVolume(sem) ==
  [pose |-> Identity, layer |-> Identity, semantic_class |-> sem,
   surface |-> FALSE]
IdSet == DOMAIN object_volumes
\* A null ObjectVolume pointer, as std::map::operator[] default-inserts it.
NullObjectVolume ==
  [pose |-> Identity, layer |-> Identity, semantic_class |-> BackgroundClass,
   surface |-> FALSE]
EmptyRegistry == [id \in {} |-> NewObjectVolume(BackgroundClass)]
InitialNextId == 1
EmptyMapLayer == [b \in Blocks |-> NoObject]
Insert(objs, id, vol) ==
  [k \in (DOMAIN objs) \cup {id} |-> IF k = id THEN vol ELSE objs[k]]
Erase(objs, ids) == [k \in (DOMAIN objs) \ ids |-> objs[k]]
\* Map::removeObject: the entry and every ownership entry that names it.
ReleaseBlocksNone(layer, ids) == layer

ReleaseBlocks(layer, ids) ==
  [b \in Blocks |-> IF layer[b] \in ids THEN NoObject ELSE layer[b]]

(* ------------------------------ messages ------------------------------- *)
\* One entry of SegmentedPointCloud.segments. Fields the configuration never
\* reads are held at one value.
MsgEntries ==
  [object_id : IF using_ground_truth_segmentation_ THEN 1..MaxGtId ELSE {NoObject},
   semantic_class : IF using_ground_truth_segmentation_ THEN {BackgroundClass}
                    ELSE SemanticClasses,
   npoints : IF object_tracking_enabled_
                /\ ~(using_ground_truth_segmentation_ /\ ground_truth_tracking_)
             THEN PointCounts ELSE {1},
   block : Blocks,
   is_moved : IF /\ object_tracking_enabled_
                 /\ ground_truth_tracking_
                 /\ using_ground_truth_segmentation_
              THEN BOOLEAN ELSE {FALSE},
   movement : IF object_tracking_enabled_ /\ ground_truth_tracking_
              THEN Transformation ELSE {Identity}]
Messages == UNION {[1..n -> MsgEntries] : n \in 0..MaxSegs}
\* Under concurrent callbacks the messages are cut down to the empty message
\* and one message of one small, labelled, moved segment.
ConcurrentMessages ==
  {<<>>}
  \cup {<<e>> : e \in {x \in MsgEntries :
                        /\ x.block = 1
                        /\ x.npoints = 1
                        /\ x.object_id \in {NoObject, 1}
                        /\ using_ground_truth_segmentation_ \/ x.semantic_class # BackgroundClass
                        /\ (object_tracking_enabled_ /\ ground_truth_tracking_)
                             => (x.movement # Identity /\
                                 (using_ground_truth_segmentation_ => x.is_moved))}}
MessagesFor(serial) == IF serial THEN Messages ELSE ConcurrentMessages

\* new Segment(pointcloud_pcl, T_G_C_[, object_id]) for message entry k.
NewSegment(e, k) ==
  [entry |-> k,
   object_id_ |-> IF using_ground_truth_segmentation_ THEN e.object_id ELSE NoObject,
   semantic_class_ |-> e.semantic_class,
   npoints |-> e.npoints,
   blocks |-> {e.block}]
\* {segment_msg.is_moved, movement} for message entry k.
NewMovement(e, k) ==
  [entry |-> k, first |-> e.is_moved,
   second |-> [g |-> e.movement, drift |-> FALSE]]
\* Integrator::computeObjectOverlap: the object that owns the segment's
\* voxels in the global map layer (NoObject when none does).
ComputeObjectOverlap(seg) ==
  LET b == CHOOSE x \in seg.blocks : TRUE IN map_layer[b]

Init ==
  /\ using_ground_truth_segmentation_ \in BOOLEAN
  /\ object_tracking_enabled_ \in BOOLEAN
  /\ ground_truth_tracking_ \in BOOLEAN
  /\ oob_read_traps \in (IF object_tracking_enabled_ /\ ~ground_truth_tracking_ THEN BOOLEAN ELSE {FALSE})
  /\ object_volumes = EmptyRegistry
  /\ next_id = InitialNextId
  /\ map_layer = EmptyMapLayer
  /\ frame_number_ = 0
  /\ current_frame_segments_ = <<>>
  /\ current_frame_movements_ = <<>>
  /\ object_segment_overlap_ = <<>>
  /\ object_merged_segments_ = <<>>
  /\ segments_alive = 0
  /\ mesh_layer_ = FALSE
  /\ mesh_layer_updated_ = FALSE
  /\ map_mutex_ = "none"
  /\ mesh_layer_mutex_ = "none"
  /\ pc = [t \in Threads |-> "idle"]
  /\ track_i = 1
  /\ track_T = Identity
  /\ track_id = NoObject
  /\ integrate_j = 1
  /\ msgs = 0
  /\ lookup_ok = FALSE
  /\ calls = <<>>
  /\ pre = NoSnapshot
  /\ reward_pub_ = NoReward
  /\ stale = FALSE
  /\ crashed = FALSE

(* --------------------- segmentPointcloudCallback ----------------------- *)
\* processSegmentPointcloud: segments are built only when lookupTransformTF
\* returned true.
LookupIgnored(ok) == TRUE

LookupGuard(ok) == ok

processSegmentPointcloud(msg) ==
  LET n == Len(msg)
      segs == [k \in 1..n |-> NewSegment(msg[k], k)]
  IN /\ current_frame_segments_' = current_frame_segments_ \o segs
     /\ current_frame_movements_' =
          IF ground_truth_tracking_
          THEN current_frame_movements_ \o [k \in 1..n |-> NewMovement(msg[k], k)]
          ELSE current_frame_movements_
     /\ object_segment_overlap_' =
          IF ~using_ground_truth_segmentation_
          THEN object_segment_overlap_ \o [k \in 1..n |-> ComputeObjectOverlap(segs[k])]
          ELSE object_segment_overlap_
     /\ UNCHANGED object_merged_segments_
     /\ segments_alive' = segments_alive + n
     /\ calls' = [k \in 1..n |-> Ev("newSegment", segs[k].object_id_, k, Identity)]
                 \o (IF ~using_ground_truth_segmentation_
                     THEN [k \in 1..n |-> Ev("computeObjectOverlap", NoObject, k, Identity)]
                     ELSE <<>>)

\* A message arrives: last_segment_msg_time_ is set and
\* processSegmentPointcloud runs (lines 207-208, 245-292).
segmentPointcloudCallback(serial) ==
  /\ CanStart("frame", serial)
  /\ msgs < MaxMsgs
  /\ msgs' = msgs + 1
  /\ pre' = Snapshot
  /\ reward_pub_' = NoReward
  /\ \E ok \in BOOLEAN :
       /\ lookup_ok' = ok
       /\ IF LookupGuard(ok)
          THEN \E msg \in MessagesFor(serial) : processSegmentPointcloud(msg)
          ELSE UNCHANGED frame_bufs /\ calls' = <<>>
  /\ Goto("frame", "check")
  /\ stale' = FALSE
  /\ UNCHANGED <<config, map_vars, mesh_vars, frame_number_, map_mutex_,
                 mesh_layer_mutex_, loop_vars, crashed>>

\* if (current_frame_segments_.size() > 0u)
ShouldIntegrateSeveral == Len(current_frame_segments_) > 1

ShouldIntegrate == Len(current_frame_segments_) > 0

\* Line 210-213: ++frame_number_ and enter integrateFrame, or go on to publish.
checkSegments ==
  /\ At("frame", "check")
  /\ IF ShouldIntegrate
     THEN /\ frame_number_' = frame_number_ + 1
          /\ Goto("frame", IF using_ground_truth_segmentation_ THEN "lock" ELSE "assign")
     ELSE /\ UNCHANGED frame_number_
          /\ Goto("frame", "reward")
  /\ UNCHANGED <<config, map_vars, frame_bufs, mesh_vars, map_mutex_,
                 mesh_layer_mutex_, loop_vars, hist_vars, stale, crashed>>

(* ------------------- Integrator::assignObjectIds ----------------------- *)
OverlapOf(k) ==
  IF k <= Len(object_segment_overlap_) THEN object_segment_overlap_[k] ELSE NoObject

\* The identity of each segment k..n: the best-overlapping object when there
\* is one, else a fresh identity taken from the allocator.
AssignedIdsReusing(k, n, nid) ==
  [j \in 1..(n - k + 1) |->
     IF OverlapOf(k + j - 1) # NoObject THEN OverlapOf(k + j - 1) ELSE InitialNextId]

RECURSIVE AssignedIds(_, _, _)
AssignedIds(k, n, nid) ==
  IF k > n THEN <<>>
  ELSE IF OverlapOf(k) # NoObject
       THEN <<OverlapOf(k)>> \o AssignedIds(k + 1, n, nid)
       ELSE <<nid>> \o AssignedIds(k + 1, n, nid + 1)

RECURSIVE SumPoints(_, _)
SumPoints(segs, idx) ==
  IF idx = {} THEN 0
  ELSE LET k == CHOOSE x \in idx : TRUE
       IN segs[k].npoints + SumPoints(segs, idx \ {k})

\* Segments of one frame that resolved to one identity become one fusion
\* unit: their point sets are concatenated.
MergeSegments(segs, id) ==
  LET idx == {k \in 1..Len(segs) : segs[k].object_id_ = id}
      first == CHOOSE k \in idx : \A l \in idx : k <= l
  IN [entry |-> first,
      object_id_ |-> id,
      semantic_class_ |->
        IF \E k \in idx : segs[k].semantic_class_ # BackgroundClass
        THEN CHOOSE c \in {segs[k].semantic_class_ : k \in idx} :
               \A d \in {segs[k].semantic_class_ : k \in idx} : c >= d
        ELSE BackgroundClass,
      npoints |-> SumPoints(segs, idx),
      blocks |-> UNION {segs[k].blocks : k \in idx}]

assignObjectIds ==
  /\ At("frame", "assign")
  /\ LET n == Len(current_frame_segments_)
         ids == AssignedIds(1, n, next_id)
         fresh == {ids[k] : k \in 1..n} \ IdSet
         allocated == {ids[k] : k \in {l \in 1..n : OverlapOf(l) = NoObject}}
         segs == [k \in 1..n |-> [current_frame_segments_[k] EXCEPT !.object_id_ = ids[k]]]
     IN /\ current_frame_segments_' = segs
        /\ next_id' = next_id + Cardinality(allocated)
        /\ object_volumes' =
             [id \in IdSet \cup allocated |->
                IF id \in IdSet THEN object_volumes[id]
                ELSE NewObjectVolume(BackgroundClass)]
        /\ object_merged_segments_' =
             [id \in {ids[k] : k \in 1..n} |-> MergeSegments(segs, id)]
        /\ Log(Ev("assignObjectIds", NoObject, 0, Identity))
  /\ Goto("frame", "semantic")
  /\ UNCHANGED <<config, map_layer, current_frame_movements_,
                 object_segment_overlap_, segments_alive, mesh_vars, frame_number_, map_mutex_,
                 mesh_layer_mutex_, loop_vars, msgs, lookup_ok, pre, reward_pub_, stale, crashed>>

\* if (segment->semantic_class_ == BackgroundClass) continue; lines 396-398.
PropagatesLabelAlways(seg) == TRUE

PropagatesLabel(seg) == seg.semantic_class_ # BackgroundClass

\* Lines 393-405.
integrateSemanticClasses ==
  /\ At("frame", "semantic")
  /\ object_volumes' =
       [id \in IdSet |->
          IF /\ id \in DOMAIN object_merged_segments_
             /\ PropagatesLabel(object_merged_segments_[id])
          THEN [object_volumes[id] EXCEPT
                  !.semantic_class = object_merged_segments_[id].semantic_class_]
          ELSE object_volumes[id]]
  /\ Log(Ev("integrateSemanticClasses", NoObject, 0, Identity))
  /\ Goto("frame", "lock")
  /\ UNCHANGED <<config, next_id, map_layer, frame_bufs, mesh_vars, frame_number_,
                 map_mutex_, mesh_layer_mutex_, loop_vars, msgs, lookup_ok, pre, reward_pub_,
                 stale, crashed>>

(* --------------------------- integrateFrame ---------------------------- *)
\* The order of the critical section of integrateFrame (lines 347-387).
PhaseAfterSwapped(p) ==
  CASE p = "lock" -> "integrate"
    [] p = "integrate" -> IF object_tracking_enabled_ THEN "track" ELSE "unlock"
    [] p = "track" -> "unlock"

PhaseAfter(p) ==
  CASE p = "lock" -> IF object_tracking_enabled_ THEN "track" ELSE "integrate"
    [] p = "track" -> "integrate"
    [] p = "integrate" -> "unlock"

\* std::lock_guard<std::mutex> map_lock(map_mutex_), line 348.
lockMap ==
  /\ At("frame", "lock")
  /\ CanLock(map_mutex_)
  /\ map_mutex_' = "frame"
  /\ track_i' = 1
  /\ integrate_j' = 1
  /\ Goto("frame", PhaseAfter("lock"))
  /\ UNCHANGED <<config, map_vars, frame_bufs, mesh_vars, frame_number_,
                 mesh_layer_mutex_, track_T, track_id, hist_vars, stale, crashed>>

(* ---------------------------- trackObjects ----------------------------- *)
\* auto movement_info = current_frame_movements_[i], line 411.
MovementIndexFirst(i) == 1

MovementIndex(i) == i

\* What the read of current_frame_movements_[i] can yield: the element, or,
\* past the end of the vector, whatever the memory holds.
MovementRead(i) ==
  IF MovementIndex(i) <= Len(current_frame_movements_)
  THEN {current_frame_movements_[MovementIndex(i)]}
  ELSE [entry : {0}, first : BOOLEAN, second : Matrix4f]

\* The policy gate of lines 417-452.
SkipTracking(seg, vol, mi) ==
  IF using_ground_truth_segmentation_
  THEN IF ground_truth_tracking_
       THEN ~mi.first
       ELSE seg.object_id_ % 2 = 0 \/ seg.npoints > kMaxTrackedPoints
  ELSE \/ /\ seg.semantic_class_ = BackgroundClass
          /\ vol.semantic_class = BackgroundClass
       \/ seg.npoints > kMaxTrackedPoints

\* convertVoxelGridToPointCloud(...) yields no points, line 483.
ModelSampleNeverEmpty(vol) == FALSE

ModelSampleEmpty(vol) == ~vol.surface

\* if (ground_truth_tracking_), line 459.
UseGroundTruthMovement == ground_truth_tracking_

\* map_->getObjectVolumePtrById(segment->object_id_) and the test
\* if (object_volume), lines 413-416.
HasObjectVolumeAlways(id) == TRUE

HasObjectVolume(id) == id \in IdSet

getObjectVolumePtrById(id) ==
  IF id \in IdSet THEN object_volumes[id] ELSE NullObjectVolume

TrackDecision(seg, mi) ==
  IF ~HasObjectVolume(seg.object_id_) THEN "no_volume"
  ELSE IF SkipTracking(seg, getObjectVolumePtrById(seg.object_id_), mi) THEN "gated"
  ELSE IF UseGroundTruthMovement THEN "ground_truth"
  ELSE IF ModelSampleEmpty(getObjectVolumePtrById(seg.object_id_)) THEN "empty_model"
  ELSE "icp"

InTrackLoop ==
  /\ At("frame", "track")
  /\ track_i <= Len(current_frame_segments_)

OutOfRangeRead == MovementIndex(track_i) > Len(current_frame_movements_)

\* The read past the end of current_frame_movements_ traps.
trackOutOfRangeTrap ==
  /\ InTrackLoop
  /\ OutOfRangeRead
  /\ oob_read_traps
  /\ crashed' = TRUE
  /\ UNCHANGED <<config, map_vars, frame_bufs, mesh_vars, frame_number_,
                 map_mutex_, mesh_layer_mutex_, pc, loop_vars, hist_vars, stale>>

\* An iteration that ends in `continue` or finds no ObjectVolume.
trackSkip ==
  /\ InTrackLoop
  /\ ~(OutOfRangeRead /\ oob_read_traps)
  /\ LET seg == current_frame_segments_[track_i]
     IN \E mi \in MovementRead(track_i) :
          LET d == TrackDecision(seg, mi)
          IN /\ d \in {"no_volume", "gated", "empty_model"}
             /\ Log(Ev(d, seg.object_id_, track_i, Identity))
  /\ track_i' = track_i + 1
  /\ UNCHANGED <<config, map_vars, frame_bufs, mesh_vars, frame_number_,
                 map_mutex_, mesh_layer_mutex_, pc, track_T, track_id,
                 integrate_j, msgs, lookup_ok, pre, reward_pub_, stale, crashed>>

\* G_T_O_S = movement_info.second, lines 459-460 and 510.
trackGroundTruth ==
  /\ InTrackLoop
  /\ ~(OutOfRangeRead /\ oob_read_traps)
  /\ LET seg == current_frame_segments_[track_i]
     IN \E mi \in MovementRead(track_i) :
          /\ TrackDecision(seg, mi) = "ground_truth"
          /\ track_T' = constructAndRenormalizeRotation(mi.second)
          /\ track_id' = seg.object_id_
          /\ Log(Ev("ground_truth", seg.object_id_, track_i,
                    constructAndRenormalizeRotation(mi.second)))
  /\ Goto("frame", "transform")
  /\ UNCHANGED <<config, map_vars, frame_bufs, mesh_vars, frame_number_,
                 map_mutex_, mesh_layer_mutex_, track_i, integrate_j, msgs,
                 lookup_ok, pre, reward_pub_, stale, crashed>>

\* G_T_S_O after icp_->align and the non-convergence fallback, lines 495-505.
AlignResult(success, result) == IF success THEN result ELSE Matrix4fIdentity

\* icp_->align(...), lines 462-510: the registration converges to some rigid
\* transform or reports non-convergence.
trackAlign ==
  /\ InTrackLoop
  /\ ~(OutOfRangeRead /\ oob_read_traps)
  /\ LET seg == current_frame_segments_[track_i]
     IN /\ \E mi \in MovementRead(track_i) : TrackDecision(seg, mi) = "icp"
        /\ \E success \in BOOLEAN, result \in Matrix4f :
             LET G_T_S_O == AlignResult(success, result)
                 T_O_S == constructAndRenormalizeRotation(MatrixInverse(G_T_S_O))
             IN /\ track_T' = T_O_S
                /\ Log(Ev(IF success THEN "align_ok" ELSE "align_fail",
                          seg.object_id_, track_i, T_O_S))
        /\ track_id' = seg.object_id_
  /\ Goto("frame", "transform")
  /\ UNCHANGED <<config, map_vars, frame_bufs, mesh_vars, frame_number_,
                 map_mutex_, mesh_layer_mutex_, track_i, integrate_j, msgs,
                 lookup_ok, pre, reward_pub_, stale, crashed>>

\* map_->transformLayer(segment->object_id_, T_O_S), line 516: re-expresses
\* the sub-map under the delta; an unknown identity is a fatal assertion.
transformLayer ==
  /\ At("frame", "transform")
  /\ IF track_id \in IdSet
     THEN /\ object_volumes' =
               [object_volumes EXCEPT
                  ![track_id].layer = Compose(object_volumes[track_id].layer, track_T)]
          /\ Log(Ev("transformLayer", track_id, track_i, track_T))
          /\ Goto("frame", "accumulate")
          /\ UNCHANGED crashed
     ELSE /\ crashed' = TRUE
          /\ UNCHANGED <<object_volumes, calls, pc>>
  /\ UNCHANGED <<config, next_id, map_layer, frame_bufs, mesh_vars, frame_number_,
                 map_mutex_, mesh_layer_mutex_, loop_vars, msgs, lookup_ok, pre, reward_pub_,
                 stale>>

\* The argument of accumulateTransform, line 517: the T_O_S that line 516
\* passed to transformLayer.
PoseDeltaStale(T) == Identity

PoseDelta(T) == T

\* object_volume->accumulateTransform(T_O_S), line 517:
\* pose_new = pose_old o delta.
accumulateTransform ==
  /\ At("frame", "accumulate")
  /\ object_volumes' =
       IF track_id \in IdSet
       THEN [object_volumes EXCEPT
               ![track_id].pose =
                 Compose(object_volumes[track_id].pose, PoseDelta(track_T))]
       ELSE object_volumes
  /\ Log(Ev("accumulateTransform", track_id, track_i, PoseDelta(track_T)))
  /\ track_i' = track_i + 1
  /\ Goto("frame", "track")
  /\ UNCHANGED <<config, next_id, map_layer, frame_bufs, mesh_vars, frame_number_,
                 map_mutex_, mesh_layer_mutex_, track_T, track_id, integrate_j,
                 msgs, lookup_ok, pre, reward_pub_, stale, crashed>>

\* The loop of trackObjects has run over every segment.
trackDone ==
  /\ At("frame", "track")
  /\ track_i > Len(current_frame_segments_)
  /\ Goto("frame", PhaseAfter("track"))
  /\ UNCHANGED <<config, map_vars, frame_bufs, mesh_vars, frame_number_,
                 map_mutex_, mesh_layer_mutex_, loop_vars, hist_vars, stale, crashed>>

(* ------------------------------- fusion -------------------------------- *)
\* What the fusion loop of integrateFrame iterates over, lines 361-372:
\* the segments themselves, or the merged units in key order.
FusionUnitsPerSegment == current_frame_segments_

FusionUnitsMergedOnly ==
  [j \in 1..Cardinality(DOMAIN object_merged_segments_) |->
     object_merged_segments_[SetToSortedSeq(DOMAIN object_merged_segments_)[j]]]

FusionUnits ==
  IF using_ground_truth_segmentation_
  THEN current_frame_segments_
  ELSE [j \in 1..Cardinality(DOMAIN object_merged_segments_) |->
          object_merged_segments_[SetToSortedSeq(DOMAIN object_merged_segments_)[j]]]

\* Integrator::integrateSegment: fuses the unit into the sub-map of its
\* object (created when absent) and reassigns the touched blocks to it.
integrateSegment ==
  /\ At("frame", "integrate")
  /\ integrate_j <= Len(FusionUnits)
  /\ LET seg == FusionUnits[integrate_j]
         id == seg.object_id_
         vol == IF id \in IdSet THEN object_volumes[id]
                ELSE NewObjectVolume(seg.semantic_class_)
     IN /\ object_volumes' = Insert(object_volumes, id, [vol EXCEPT !.surface = TRUE])
        /\ map_layer' = [b \in Blocks |-> IF b \in seg.blocks THEN id ELSE map_layer[b]]
        /\ Log(Ev("integrateSegment", id, seg.entry, Identity))
  /\ integrate_j' = integrate_j + 1
  /\ UNCHANGED <<config, next_id, frame_bufs, mesh_vars, frame_number_, map_mutex_,
                 mesh_layer_mutex_, pc, track_i, track_T, track_id, msgs,
                 lookup_ok, pre, reward_pub_, stale, crashed>>

integrateDone ==
  /\ At("frame", "integrate")
  /\ integrate_j > Len(FusionUnits)
  /\ Goto("frame", PhaseAfter("integrate"))
  /\ UNCHANGED <<config, map_vars, frame_bufs, mesh_vars, frame_number_,
                 map_mutex_, mesh_layer_mutex_, loop_vars, hist_vars, stale, crashed>>

\* End of the block of line 347: map_lock is released (line 387).
unlockMap ==
  /\ At("frame", "unlock")
  /\ map_mutex_' = "none"
  /\ Goto("frame", "clear")
  /\ UNCHANGED <<config, map_vars, frame_bufs, mesh_vars, frame_number_,
                 mesh_layer_mutex_, loop_vars, hist_vars, stale, crashed>>

\* clearFrame, lines 524-533, called from segmentPointcloudCallback.
clearFrame ==
  /\ At("frame", "clear")
  /\ current_frame_segments_' = <<>>
  /\ current_frame_movements_' = <<>>
  /\ object_segment_overlap_' = <<>>
  /\ object_merged_segments_' = <<>>
  /\ segments_alive' = segments_alive - Len(current_frame_segments_)
  /\ calls' = <<>>
  /\ pre' = NoSnapshot
  /\ track_i' = 1
  /\ track_T' = Identity
  /\ track_id' = NoObject
  /\ integrate_j' = 1
  /\ Goto("frame", "reward")
  /\ UNCHANGED <<config, map_vars, mesh_vars, frame_number_, map_mutex_,
                 mesh_layer_mutex_, msgs, lookup_ok, reward_pub_, stale, crashed>>

(* ----------------------- publishReward, publishMap --------------------- *)
\* publishReward, lines 647-709: takes map_mutex_, reads the map, publishes.
publishRewardLock ==
  /\ At("frame", "reward")
  /\ CanLock(map_mutex_)
  /\ map_mutex_' = "frame"
  /\ Goto("frame", "reward_locked")
  /\ UNCHANGED <<config, map_vars, frame_bufs, mesh_vars, frame_number_,
                 mesh_layer_mutex_, loop_vars, hist_vars, stale, crashed>>

\* (*object_volumes)[voxel.active_object.object_id], line 688, for every
\* voxel with an owner (line 682): the owners the registry does not hold.
RewardLookupMissesAny == {map_layer[b] : b \in Blocks} \ {NoObject}

RewardLookupMisses == {map_layer[b] : b \in Blocks} \ (IdSet \cup {NoObject})

\* The TSDF voxel of the owner's sub-map at a voxel of the global map:
\* not observed (weight < 1e-6), within half a voxel of the surface, or
\* farther from it (lines 690-699).
TsdfVoxelStates == {"unobserved", "near", "far"}

\* global_map->getAllAllocatedBlocks, line 654: every block that has an
\* owner, and any block that lost its owner to a removal.
AllocatedBlockSets ==
  {A \in SUBSET Blocks : \A b \in Blocks : map_layer[b] # NoObject => b \in A}

\* The blocks whose voxels have an active object.
OwnedBlocks == {b \in Blocks : map_layer[b] # NoObject}

\* The voxels the loops of lines 670-674 visit, block after block: the
\* owner of each and, where there is one, the state of the owner's TSDF
\* voxel there.
VoxelsOf(A, tsdf) ==
  [k \in 1..(Cardinality(A) * VoxelsPerBlock) |->
     LET b == SetToSortedSeq(A)[((k - 1) \div VoxelsPerBlock) + 1]
         i == ((k - 1) % VoxelsPerBlock) + 1
     IN [owner |-> map_layer[b],
         tsdf |-> IF b \in OwnedBlocks THEN tsdf[b][i] ELSE "unobserved"]]

\* msg initialised, lines 658-668.
NewReward ==
  [published |-> TRUE,
   number_of_objects |-> Cardinality(IdSet),
   number_of_voxels |-> 0,
   number_of_free_voxels |-> 0,
   number_of_occupied_voxels |-> 0,
   number_of_unknown_voxels |-> 0]

\* The body of the voxel loop, lines 676-700.
CountVoxelSkipsUnowned(msg, voxel) ==
  LET m == [msg EXCEPT !.number_of_voxels = @ + 1]
  IN IF voxel.owner = NoObject THEN m
     ELSE IF voxel.tsdf = "unobserved"
          THEN [m EXCEPT !.number_of_unknown_voxels = @ + 1]
          ELSE IF voxel.tsdf = "near"
               THEN [m EXCEPT !.number_of_occupied_voxels = @ + 1]
               ELSE [m EXCEPT !.number_of_free_voxels = @ + 1]

CountVoxel(msg, voxel) ==
  LET m == [msg EXCEPT !.number_of_voxels = @ + 1]
  IN IF voxel.owner = NoObject
     THEN [m EXCEPT !.number_of_unknown_voxels = @ + 1]
     ELSE IF voxel.tsdf = "unobserved"
          THEN [m EXCEPT !.number_of_unknown_voxels = @ + 1]
          ELSE IF voxel.tsdf = "near"
               THEN [m EXCEPT !.number_of_occupied_voxels = @ + 1]
               ELSE [m EXCEPT !.number_of_free_voxels = @ + 1]

RECURSIVE CountVoxels(_, _)
CountVoxels(msg, voxels) ==
  IF voxels = <<>> THEN msg
  ELSE CountVoxels(CountVoxel(msg, Head(voxels)), Tail(voxels))

\* Lines 651-706: counts objects and voxels and publishes the Reward. A
\* lookup of an owner the registry does not hold inserts a null entry for
\* it, and line 689 dereferences that null pointer.
publishReward ==
  /\ At("frame", "reward_locked")
  /\ IF RewardLookupMisses = {}
     THEN /\ \E A \in AllocatedBlockSets :
               \E tsdf \in [OwnedBlocks -> [1..VoxelsPerBlock -> TsdfVoxelStates]] :
                 reward_pub_' = CountVoxels(NewReward, VoxelsOf(A, tsdf))
          /\ map_mutex_' = "none"
          /\ Goto("frame", "publish_map")
          /\ UNCHANGED <<object_volumes, crashed>>
     ELSE /\ LET b == CHOOSE x \in Blocks :
                       /\ map_layer[x] \in RewardLookupMisses
                       /\ \A y \in Blocks : map_layer[y] \in RewardLookupMisses => x <= y
             IN object_volumes' = Insert(object_volumes, map_layer[b], NullObjectVolume)
          /\ crashed' = TRUE
          /\ UNCHANGED <<map_mutex_, pc, reward_pub_>>
  /\ UNCHANGED <<config, next_id, map_layer, frame_bufs, mesh_vars, frame_number_,
                 mesh_layer_mutex_, loop_vars, msgs, lookup_ok, calls, pre, stale>>

\* publishMap, lines 711-759.
publishMapLock ==
  /\ At("frame", "publish_map")
  /\ CanLock(map_mutex_)
  /\ map_mutex_' = "frame"
  /\ Goto("frame", "map_locked")
  /\ UNCHANGED <<config, map_vars, frame_bufs, mesh_vars, frame_number_,
                 mesh_layer_mutex_, loop_vars, hist_vars, stale, crashed>>

\* publishMap publishes and segmentPointcloudCallback returns.
publishMap ==
  /\ At("frame", "map_locked")
  /\ map_mutex_' = "none"
  /\ Goto("frame", "idle")
  /\ calls' = <<>>
  /\ pre' = NoSnapshot
  /\ reward_pub_' = NoReward
  /\ stale' = FALSE
  /\ lookup_ok' = FALSE
  /\ track_i' = 1
  /\ track_T' = Identity
  /\ track_id' = NoObject
  /\ integrate_j' = 1
  /\ UNCHANGED <<config, map_vars, frame_bufs, mesh_vars, frame_number_,
                 mesh_layer_mutex_, msgs, crashed>>

(* --------------------------- updateMeshEvent --------------------------- *)
\* MOMeshIntegrator::generateMesh: meshes every object that has a surface;
\* the mesh layer holds a mesh when there is one.
GenerateMesh == \E id \in IdSet : object_volumes[id].surface

\* std::lock_guard mesh_layer_lock(*mesh_layer_mutex_), line 536.
timerLockMesh(serial) ==
  /\ CanStart("timer", serial)
  /\ CanLock(mesh_layer_mutex_)
  /\ mesh_layer_mutex_' = "timer"
  /\ Goto("timer", "mesh_held")
  /\ UNCHANGED <<config, map_vars, frame_bufs, mesh_vars, frame_number_,
                 map_mutex_, loop_vars, hist_vars, stale, crashed>>

\* std::lock_guard map_lock(map_mutex_), line 537.
timerLockMap ==
  /\ At("timer", "mesh_held")
  /\ CanLock(map_mutex_)
  /\ map_mutex_' = "timer"
  /\ Goto("timer", "both_held")
  /\ UNCHANGED <<config, map_vars, frame_bufs, mesh_vars, frame_number_,
                 mesh_layer_mutex_, loop_vars, hist_vars, stale, crashed>>

\* Lines 539-565: regenerate the mesh, then both locks are released.
updateMeshEvent ==
  /\ At("timer", "both_held")
  /\ mesh_layer_' = GenerateMesh
  /\ mesh_layer_updated_' = ((GenerateMesh # mesh_layer_) \/ mesh_layer_updated_)
  /\ map_mutex_' = "none"
  /\ mesh_layer_mutex_' = "none"
  /\ Goto("timer", "idle")
  /\ UNCHANGED <<config, map_vars, frame_bufs, frame_number_, loop_vars,
                 hist_vars, stale, crashed>>

(* ------------------------- generateMeshCallback ------------------------ *)
\* The mutexes generateMeshCallback locks, in the order of lines 571, 573.
GenerateMeshLocksReversed == <<"map", "mesh">>

GenerateMeshLocks == <<"mesh", "map">>

\* Line 571.
generateMeshLockMesh(serial) ==
  /\ CanStart("admin", serial)
  /\ LockGuard(GenerateMeshLocks[1], "admin")
  /\ Goto("admin", "gen_mesh_held")
  /\ UNCHANGED <<config, map_vars, frame_bufs, mesh_vars, frame_number_,
                 loop_vars, hist_vars, stale, crashed>>

\* Line 573.
generateMeshLockMap ==
  /\ At("admin", "gen_mesh_held")
  /\ LockGuard(GenerateMeshLocks[2], "admin")
  /\ Goto("admin", "gen_both_held")
  /\ UNCHANGED <<config, map_vars, frame_bufs, mesh_vars, frame_number_,
                 loop_vars, hist_vars, stale, crashed>>

\* Lines 575-585: full regeneration; map_lock is released at line 585.
generateMesh ==
  /\ At("admin", "gen_both_held")
  /\ mesh_layer_' = GenerateMesh
  /\ mesh_layer_updated_' = TRUE
  /\ map_mutex_' = "none"
  /\ Goto("admin", "gen_publish")
  /\ UNCHANGED <<config, map_vars, frame_bufs, frame_number_, mesh_layer_mutex_,
                 loop_vars, hist_vars, stale, crashed>>

\* Lines 587-609: publish and write the mesh, release mesh_layer_lock.
generateMeshCallback ==
  /\ At("admin", "gen_publish")
  /\ mesh_layer_mutex_' = "none"
  /\ Goto("admin", "idle")
  /\ UNCHANGED <<config, map_vars, frame_bufs, mesh_vars, frame_number_,
                 map_mutex_, loop_vars, hist_vars, stale, crashed>>

(* -------------------------- saveObjectsCallback ------------------------ *)
\* Line 616.
saveObjectsLock(serial) ==
  /\ CanStart("admin", serial)
  /\ CanLock(map_mutex_)
  /\ map_mutex_' = "admin"
  /\ Goto("admin", "save_held")
  /\ UNCHANGED <<config, map_vars, frame_bufs, mesh_vars, frame_number_,
                 mesh_layer_mutex_, loop_vars, hist_vars, stale, crashed>>

\* Lines 618-645: every object is written to a file; the lock is released.
saveObjectsCallback ==
  /\ At("admin", "save_held")
  /\ map_mutex_' = "none"
  /\ Goto("admin", "idle")
  /\ UNCHANGED <<config, map_vars, frame_bufs, mesh_vars, frame_number_,
                 mesh_layer_mutex_, loop_vars, hist_vars, stale, crashed>>

(* ------------------------- removeObjectsCallback ----------------------- *)
\* Line 765.
removeObjectsLock(serial) ==
  /\ CanStart("admin", serial)
  /\ CanLock(map_mutex_)
  /\ map_mutex_' = "admin"
  /\ Goto("admin", "remove_held")
  /\ UNCHANGED <<config, map_vars, frame_bufs, mesh_vars, frame_number_,
                 mesh_layer_mutex_, loop_vars, hist_vars, stale, crashed>>

\* The identities the loop of lines 771-773 can end up removing. The loop
\* erases the element its iterator stands on and then advances that
\* iterator through the freed node: the first element is always removed,
\* what is visited after it is whatever the freed node leads to.
RemovedByLoop ==
  IF IdSet = {} THEN {{}}
  ELSE LET first == CHOOSE x \in IdSet : \A y \in IdSet : x <= y
       IN {R \in SUBSET IdSet : first \in R}

\* Lines 767-781: the loop, *mesh_layer_updated_ = true, unlock. Advancing
\* the invalidated iterator may also abort the process.
removeObjectsCallback ==
  /\ At("admin", "remove_held")
  /\ \E R \in RemovedByLoop, abort \in BOOLEAN :
       /\ abort => IdSet # {}
       /\ object_volumes' = Erase(object_volumes, R)
       /\ map_layer' = ReleaseBlocks(map_layer, R)
       /\ IF abort
          THEN /\ crashed' = TRUE
               /\ UNCHANGED <<mesh_layer_updated_, map_mutex_, pc>>
          ELSE /\ mesh_layer_updated_' = TRUE
               /\ map_mutex_' = "none"
               /\ Goto("admin", "idle")
               /\ UNCHANGED crashed
  /\ UNCHANGED <<config, next_id, frame_bufs, mesh_layer_, frame_number_,
                 mesh_layer_mutex_, loop_vars, hist_vars, stale>>

(* ----------------------------- resetCallback --------------------------- *)
FrameHoldsSegments ==
  /\ pc["frame"] \in {"check", "assign", "semantic", "lock", "track", "transform",
                      "accumulate", "integrate", "unlock"}
  /\ Len(current_frame_segments_) > 0

\* frame_number_ = 0u, line 233.
ResetFrameNumberKept(n) == n

ResetFrameNumber(n) == 0

\* Lines 229-237: a message with data = false is ignored; otherwise the
\* counters are reset.
resetCallback(serial) ==
  /\ CanStart("admin", serial)
  /\ \E data \in BOOLEAN :
       IF ~data
       THEN UNCHANGED <<frame_number_, mesh_layer_updated_, pc>>
       ELSE /\ frame_number_' = ResetFrameNumber(frame_number_)
            /\ mesh_layer_updated_' = FALSE
            /\ Goto("admin", "reset_clear")
  /\ UNCHANGED <<config, map_vars, frame_bufs, mesh_layer_, map_mutex_,
                 mesh_layer_mutex_, loop_vars, hist_vars, stale, crashed>>

\* Lines 239-242: map_->clear(), mesh_layer_->clear(), clearFrame().
resetClear ==
  /\ At("admin", "reset_clear")
  /\ object_volumes' = EmptyRegistry
  /\ next_id' = InitialNextId
  /\ map_layer' = EmptyMapLayer
  /\ mesh_layer_' = FALSE
  /\ current_frame_segments_' = <<>>
  /\ current_frame_movements_' = <<>>
  /\ object_segment_overlap_' = <<>>
  /\ object_merged_segments_' = <<>>
  /\ segments_alive' = segments_alive - Len(current_frame_segments_)
  /\ stale' = (stale \/ FrameHoldsSegments)
  /\ Goto("admin", "idle")
  /\ UNCHANGED <<config, mesh_layer_updated_, frame_number_, map_mutex_,
                 mesh_layer_mutex_, loop_vars, hist_vars, crashed>>

\* The frame callback dereferences a Segment that resetCallback's
\* clearFrame has deleted under it.
useAfterFree ==
  /\ ~crashed
  /\ stale
  /\ pc["frame"] \in {"assign", "semantic", "track", "transform", "accumulate",
                      "integrate"}
  /\ crashed' = TRUE
  /\ UNCHANGED <<config, map_vars, frame_bufs, mesh_vars, frame_number_,
                 map_mutex_, mesh_layer_mutex_, pc, loop_vars, hist_vars, stale>>

(* --------------------------- specifications ---------------------------- *)
FrameSteps ==
  \/ checkSegments
  \/ assignObjectIds
  \/ integrateSemanticClasses
  \/ lockMap
  \/ trackOutOfRangeTrap
  \/ trackSkip
  \/ trackGroundTruth
  \/ trackAlign
  \/ transformLayer
  \/ accumulateTransform
  \/ trackDone
  \/ integrateSegment
  \/ integrateDone
  \/ unlockMap
  \/ clearFrame
  \/ publishRewardLock
  \/ publishReward
  \/ publishMapLock
  \/ publishMap

OtherSteps ==
  \/ timerLockMap
  \/ updateMeshEvent
  \/ generateMeshLockMap
  \/ generateMesh
  \/ generateMeshCallback
  \/ saveObjectsCallback
  \/ removeObjectsCallback
  \/ resetClear

\* One spinner thread: the callbacks are dispatched one at a time.
Next ==
  \/ segmentPointcloudCallback(TRUE)
  \/ timerLockMesh(TRUE)
  \/ generateMeshLockMesh(TRUE)
  \/ saveObjectsLock(TRUE)
  \/ removeObjectsLock(TRUE)
  \/ resetCallback(TRUE)
  \/ FrameSteps
  \/ OtherSteps

Spec == Init /\ [][Next]_vars

\* The frame callback, the mesh timer and the service / reset callbacks run
\* on threads of their own.
NextMT ==
  \/ segmentPointcloudCallback(FALSE)
  \/ timerLockMesh(FALSE)
  \/ generateMeshLockMesh(FALSE)
  \/ saveObjectsLock(FALSE)
  \/ removeObjectsLock(FALSE)
  \/ resetCallback(FALSE)
  \/ FrameSteps
  \/ OtherSteps
  \/ useAfterFree

SpecMT == Init /\ [][NextMT]_vars

\* Fair scheduling: a callback that has started and can take a step
\* infinitely often (a mutex it waits for is free infinitely often) takes it.
TimerSteps ==
  \/ timerLockMap
  \/ updateMeshEvent

AdminSteps ==
  \/ generateMeshLockMap
  \/ generateMesh
  \/ generateMeshCallback
  \/ saveObjectsCallback
  \/ removeObjectsCallback
  \/ resetClear

SpecMTFair ==
  /\ SpecMT
  /\ SF_vars(FrameSteps)
  /\ SF_vars(TimerSteps)
  /\ SF_vars(AdminSteps)

(* ------------------------------ properties ----------------------------- *)
CallsOf(ops) == {k \in 1..Len(calls) : calls[k].op \in ops}
PoseUpdateOps == {"transformLayer", "accumulateTransform"}
RegistrationOps == {"align_ok", "align_fail"}
TrackOutcomeOps == {"no_volume", "gated", "empty_model", "ground_truth",
                    "align_ok", "align_fail"}
FusionsOf(id) == {k \in CallsOf({"integrateSegment"}) : calls[k].id = id}
TransformsOf(id) == {k \in CallsOf({"transformLayer"}) : calls[k].id = id}

\* C1: within a frame every transformLayer / accumulateTransform call comes
\* before the first integrateSegment call.
C1_PoseUpdatesBeforeFusion ==
  \A k \in CallsOf({"integrateSegment"}) : \A l \in CallsOf(PoseUpdateOps) : l < k

C1_Witness ==
  \E k, l, m \in 1..Len(calls) :
    /\ k < l /\ l < m
    /\ calls[k].op = "transformLayer"
    /\ calls[l].op = "accumulateTransform"
    /\ calls[m].op = "integrateSegment"
    /\ calls[k].id = calls[m].id
    /\ calls[l].id = calls[m].id

\* C2: with inferred segmentation no identity is fused twice in a frame, and
\* when the fusion loop has ended every identity carried by a segment of the
\* frame has been fused exactly once.
C2_OneFusionPerIdentity ==
  ~using_ground_truth_segmentation_ =>
    /\ \A k \in CallsOf({"integrateSegment"}) :
         Cardinality(FusionsOf(calls[k].id)) = 1
    /\ At("frame", "unlock") =>
         \A i \in 1..Len(current_frame_segments_) :
           Cardinality(FusionsOf(current_frame_segments_[i].object_id_)) = 1

C2_Witness ==
  /\ ~using_ground_truth_segmentation_
  /\ At("frame", "unlock")
  /\ Len(current_frame_segments_) = 2
  /\ current_frame_segments_[1].object_id_ = current_frame_segments_[2].object_id_
  /\ Cardinality(FusionsOf(current_frame_segments_[1].object_id_)) = 1

\* C3: within a frame transformLayer is applied at most once per object
\* identity.
C3_OneTransformPerObject ==
  \A k \in CallsOf({"transformLayer"}) : Cardinality(TransformsOf(calls[k].id)) <= 1

\* C4: from the overlap computation to the end of the fusion of a frame the
\* frame callback holds map_mutex_, so no other holder runs in between.
FrameBetweenOverlapAndFusionEnd ==
  /\ ~using_ground_truth_segmentation_
  /\ Len(current_frame_segments_) > 0
  /\ pc["frame"] \in {"check", "assign", "semantic", "lock", "track", "transform",
                      "accumulate", "integrate", "unlock"}
C4_FrameIsOneCriticalSection ==
  (~crashed /\ FrameBetweenOverlapAndFusionEnd) => map_mutex_ = "frame"

\* C5: resetCallback, removeObjectsCallback and generateMeshCallback touch
\* the Map only while they hold map_mutex_.
AdminAccessesMap == pc["admin"] \in {"gen_both_held", "remove_held", "reset_clear"}
C5_AdminHoldsMapMutex ==
  (~crashed /\ AdminAccessesMap) => map_mutex_ = "admin"

\* C6: whenever a reader holds map_mutex_, the sub-map and the pose of every
\* object have taken the same deltas.
ReaderHoldsMap ==
  \/ map_mutex_ = "timer" /\ pc["timer"] = "both_held"
  \/ map_mutex_ = "admin" /\ pc["admin"] \in {"gen_both_held", "save_held"}
  \/ map_mutex_ = "frame" /\ pc["frame"] \in {"reward_locked", "map_locked"}
C6_PoseUpdateAtomicForReaders ==
  (~crashed /\ ReaderHoldsMap) =>
    \A id \in IdSet : object_volumes[id].layer = object_volumes[id].pose

C6_Witness ==
  /\ ~crashed
  /\ map_mutex_ = "timer"
  /\ pc["timer"] = "both_held"
  /\ \E id \in IdSet : /\ object_volumes[id].pose # Identity
                        /\ object_volumes[id].layer = object_volumes[id].pose

\* C7: a message whose sensor-pose lookup fails creates no segment, computes
\* no overlap, never enters integrateFrame, and leaves frame_number_, the
\* frame buffers and the Map as they were when it arrived.
MapUnchangedSinceArrival ==
  /\ object_volumes = pre.object_volumes
  /\ map_layer = pre.map_layer
  /\ next_id = pre.next_id
C7_FailedLookupDropsFrame ==
  (pc["frame"] # "idle" /\ pre.taken /\ ~lookup_ok) =>
    /\ calls = <<>>
    /\ current_frame_segments_ = <<>>
    /\ current_frame_movements_ = <<>>
    /\ object_segment_overlap_ = <<>>
    /\ object_merged_segments_ = <<>>
    /\ pc["frame"] \in {"check", "reward", "reward_locked", "publish_map", "map_locked"}
    /\ frame_number_ = pre.frame_number_
    /\ MapUnchangedSinceArrival

C7_Witness ==
  /\ At("frame", "map_locked")
  /\ pre.taken
  /\ ~lookup_ok
  /\ IdSet # {}

\* C8: an object whose registration did not converge has, when the tracking
\* and fusion of the frame have ended, the pose it had when the frame
\* arrived, and the delta applied for it was the identity.
PoseAtArrival(id) ==
  IF id \in DOMAIN pre.object_volumes THEN pre.object_volumes[id].pose ELSE Identity
C8_NonConvergenceKeepsPose ==
  (At("frame", "unlock") /\ pre.taken) =>
    \A k \in CallsOf({"align_fail"}) :
      /\ calls[k].T = Identity
      /\ calls[k].id \in IdSet
      /\ object_volumes[calls[k].id].pose = PoseAtArrival(calls[k].id)

\* C9: an object with an empty model sample is neither registered nor
\* transformed for that segment; the loop goes on over the remaining
\* segments, and the segment's object is fused when the frame ends.
HadSurfaceAtArrival(id) ==
  /\ id \in DOMAIN pre.object_volumes
  /\ pre.object_volumes[id].surface
C9_EmptyModelSkipsTracking ==
  pre.taken =>
    /\ ~ground_truth_tracking_ =>
         \A k \in CallsOf(RegistrationOps \cup PoseUpdateOps) :
           HadSurfaceAtArrival(calls[k].id)
    /\ \A k \in CallsOf({"empty_model"}) :
         /\ \A l \in CallsOf(RegistrationOps \cup PoseUpdateOps \cup {"ground_truth"}) :
              calls[l].i # calls[k].i
         /\ pc["frame"] \in {"integrate", "unlock"} =>
              \A i \in 1..Len(current_frame_segments_) :
                \E l \in CallsOf(TrackOutcomeOps) : calls[l].i = i
         /\ pc["frame"] = "unlock" => FusionsOf(calls[k].id) # {}

C9_Witness ==
  /\ At("frame", "unlock")
  /\ Len(current_frame_segments_) = 2
  /\ \E k \in CallsOf({"empty_model"}) :
       /\ calls[k].i = 1
       /\ FusionsOf(calls[k].id) # {}
  /\ \E l \in CallsOf({"accumulateTransform"}) : calls[l].i = 2

\* C10: with ground-truth tracking every delta applied is the movement of
\* the message entry the tracked segment was built from, each object's pose
\* is its pose at arrival composed with the movements applied to it, and
\* the registration is never called.
RECURSIVE ComposeAll(_, _)
ComposeAll(id, n) ==
  IF n = 0 THEN Identity
  ELSE IF calls[n].op = "accumulateTransform" /\ calls[n].id = id
       THEN Compose(ComposeAll(id, n - 1), calls[n].T)
       ELSE ComposeAll(id, n - 1)
C10_GroundTruthMovementApplied ==
  (ground_truth_tracking_ /\ pre.taken) =>
    /\ CallsOf(RegistrationOps \cup {"empty_model"}) = {}
    /\ \A k \in CallsOf(PoseUpdateOps) :
         \E m \in 1..Len(current_frame_movements_) :
           /\ calls[k].i <= Len(current_frame_segments_)
           /\ current_frame_movements_[m].entry =
                current_frame_segments_[calls[k].i].entry
           /\ calls[k].T = current_frame_movements_[m].second.g
           /\ calls[k].id = current_frame_segments_[calls[k].i].object_id_
    /\ \A id \in IdSet :
         object_volumes[id].pose = Compose(PoseAtArrival(id), ComposeAll(id, Len(calls)))

C10_Witness ==
  /\ ground_truth_tracking_
  /\ At("frame", "unlock")
  /\ \E k \in CallsOf({"accumulateTransform"}) :
       /\ calls[k].i = 2
       /\ calls[k].T # Identity
       /\ current_frame_movements_[1].second.g = Identity
       /\ object_volumes[calls[k].id].pose # PoseAtArrival(calls[k].id)

\* C11: in one tracking step accumulateTransform takes the delta that
\* transformLayer took for the same object, the pose of every object is its
\* pose at arrival composed with the deltas applied to it, and outside of
\* that step the sub-map and the pose of every object have taken the same
\* deltas.
C11_PoseFollowsSubmap ==
  /\ \A k \in CallsOf({"accumulateTransform"}) :
       /\ k > 1
       /\ calls[k - 1].op = "transformLayer"
       /\ calls[k - 1].id = calls[k].id
       /\ calls[k - 1].T = calls[k].T
  /\ pc["frame"] # "accumulate" =>
       \A id \in IdSet : object_volumes[id].layer = object_volumes[id].pose
  /\ pre.taken =>
       \A id \in IdSet :
         object_volumes[id].pose = Compose(PoseAtArrival(id), ComposeAll(id, Len(calls)))

C11_Witness ==
  /\ ~ground_truth_tracking_
  /\ At("frame", "unlock")
  /\ frame_number_ = 2
  /\ \E k \in CallsOf({"accumulateTransform"}) :
       /\ calls[k].T # Identity
       /\ object_volumes[calls[k].id].pose # PoseAtArrival(calls[k].id)
       /\ object_volumes[calls[k].id].layer = object_volumes[calls[k].id].pose

\* C12: with ground-truth segmentation computeObjectOverlap, assignObjectIds
\* and integrateSemanticClasses are never called, nothing is merged, and the
\* segments of the frame are fused one integrateSegment call each, in the
\* order of the message.
C12_GroundTruthFusesEverySegment ==
  using_ground_truth_segmentation_ =>
    /\ CallsOf({"computeObjectOverlap", "assignObjectIds",
                "integrateSemanticClasses"}) = {}
    /\ object_segment_overlap_ = <<>>
    /\ object_merged_segments_ = <<>>
    /\ LET f == SetToSortedSeq(CallsOf({"integrateSegment"}))
       IN /\ Len(f) <= Len(current_frame_segments_)
          /\ \A j \in 1..Len(f) :
               /\ calls[f[j]].i = current_frame_segments_[j].entry
               /\ calls[f[j]].i = j
               /\ calls[f[j]].id = current_frame_segments_[j].object_id_
          /\ At("frame", "unlock") => Len(f) = Len(current_frame_segments_)

C12_Witness ==
  /\ using_ground_truth_segmentation_
  /\ At("frame", "unlock")
  /\ Len(current_frame_segments_) = 2
  /\ current_frame_segments_[1].object_id_ = current_frame_segments_[2].object_id_
  /\ Cardinality(FusionsOf(current_frame_segments_[1].object_id_)) = 2

\* C13: a frame changes the stored label of an object only to the label,
\* other than Background, of the merged segment assigned to it, and a stored
\* label other than Background never becomes Background.
C13_BackgroundNeverOverwrites ==
  pre.taken =>
    \A id \in IdSet \cap DOMAIN pre.object_volumes :
      LET old == pre.object_volumes[id].semantic_class
          new == object_volumes[id].semantic_class
      IN /\ old # BackgroundClass => new # BackgroundClass
         /\ new # old =>
              /\ id \in DOMAIN object_merged_segments_
              /\ object_merged_segments_[id].semantic_class_ = new
              /\ new # BackgroundClass

C13_Witness ==
  /\ ~using_ground_truth_segmentation_
  /\ At("frame", "unlock")
  /\ pre.taken
  /\ \E id \in IdSet \cap DOMAIN pre.object_volumes :
       /\ pre.object_volumes[id].semantic_class # BackgroundClass
       /\ id \in DOMAIN object_merged_segments_
       /\ object_merged_segments_[id].semantic_class_ = BackgroundClass
       /\ object_volumes[id].semantic_class = pre.object_volumes[id].semantic_class

\* C14: when segmentPointcloudCallback is past clearFrame or has skipped the
\* frame, and when it has returned, the four frame buffers are empty and no
\* Segment is left alive; every live Segment is in current_frame_segments_
\* once, and every segment in it was built from the message being handled.
FrameReturning ==
  pc["frame"] \in {"idle", "reward", "reward_locked", "publish_map", "map_locked"}
C14_SegmentsReleasedWithFrame ==
  /\ FrameReturning =>
       /\ current_frame_segments_ = <<>>
       /\ current_frame_movements_ = <<>>
       /\ object_segment_overlap_ = <<>>
       /\ object_merged_segments_ = <<>>
       /\ segments_alive = 0
  /\ segments_alive = Len(current_frame_segments_)
  /\ \A k \in 1..Len(current_frame_segments_) : current_frame_segments_[k].entry = k
  /\ \A k \in CallsOf({"integrateSegment"}) :
       calls[k].i \in 1..Len(current_frame_segments_)

C14_Witness ==
  /\ At("frame", "reward")
  /\ lookup_ok
  /\ msgs = 2
  /\ frame_number_ = 2
  /\ segments_alive = 0
  /\ current_frame_segments_ = <<>>

\* C15: when removeObjectsCallback has completed, the registry holds no
\* object and no entry of the ownership index names one.
C15_RemovedObjectsAbsent ==
  [][(pc["admin"] = "remove_held" /\ pc'["admin"] = "idle") =>
       /\ object_volumes' = EmptyRegistry
       /\ map_layer' = EmptyMapLayer]_vars

\* C16: when a reset with data = true has completed, the Map holds no
\* object, its identity counter has its initial value, the mesh layer is
\* empty, frame_number_ is 0 and the frame buffers are empty.
C16_ResetEmptiesEverything ==
  [][(pc["admin"] = "reset_clear" /\ pc'["admin"] = "idle") =>
       /\ object_volumes' = EmptyRegistry
       /\ next_id' = InitialNextId
       /\ map_layer' = EmptyMapLayer
       /\ ~mesh_layer_'
       /\ frame_number_' = 0
       /\ current_frame_segments_' = <<>>
       /\ current_frame_movements_' = <<>>
       /\ object_segment_overlap_' = <<>>
       /\ object_merged_segments_' = <<>>
       /\ segments_alive' = 0]_vars

C16_Witness ==
  /\ At("admin", "reset_clear")
  /\ frame_number_ = 0
  /\ msgs = 2
  /\ next_id > InitialNextId
  /\ Cardinality(IdSet) = 1
  /\ mesh_layer_

\* C17: with inferred segmentation every identity in the registry is
\* non-zero and below the allocator, and every step other than a reset
\* leaves the allocator at least where it was and adds to the registry only
\* identities at or above the allocator's value before the step.
C17_IdentitiesIncrease ==
  [][~using_ground_truth_segmentation_ =>
       /\ \A id \in DOMAIN object_volumes' : id # NoObject /\ id < next_id'
       /\ pc["admin"] # "reset_clear" =>
            /\ next_id' >= next_id
            /\ \A id \in (DOMAIN object_volumes') \ IdSet : id >= next_id]_vars

C17_Witness ==
  /\ ~using_ground_truth_segmentation_
  /\ At("frame", "unlock")
  /\ pre.taken
  /\ pre.object_volumes = EmptyRegistry
  /\ pre.next_id = 2
  /\ IdSet = {2}
  /\ next_id = 3

\* C18: no step of publishReward or publishMap changes the registry, an
\* ObjectVolume, the allocator or the ownership index.
InSnapshot ==
  pc["frame"] \in {"reward", "reward_locked", "publish_map", "map_locked"}
C18_SnapshotsReadOnly ==
  [][InSnapshot => UNCHANGED map_vars]_vars

C18_Witness ==
  /\ At("frame", "publish_map")
  /\ lookup_ok
  /\ msgs = 2
  /\ Cardinality(IdSet) = 1
  /\ \E b \in Blocks : map_layer[b] \in IdSet
  /\ \E b \in Blocks : map_layer[b] = NoObject

\* C19: in every iteration of the loop of trackObjects
\* current_frame_movements_ has one entry per segment, so the read of
\* current_frame_movements_[i] is in range.
C19_MovementReadInRange ==
  InTrackLoop =>
    /\ Len(current_frame_movements_) = Len(current_frame_segments_)
    /\ ~OutOfRangeRead

\* C20: no callback waits for a mutex it holds itself, no two callbacks wait
\* for a mutex the other holds, no holder of map_mutex_ waits for
\* mesh_layer_mutex_, and under fair scheduling every callback that has
\* started returns, unless the process aborts.
WaitsFor(t) ==
  CASE t = "frame" /\ pc[t] \in {"lock", "reward", "publish_map"} -> "map"
    [] t = "timer" /\ pc[t] = "mesh_held" -> "map"
    [] t = "admin" /\ pc[t] = "gen_mesh_held" -> GenerateMeshLocks[2]
    [] OTHER -> "none"
HolderOf(m) ==
  CASE m = "map" -> map_mutex_
    [] m = "mesh" -> mesh_layer_mutex_
    [] OTHER -> "none"
NoCircularWait ==
  \A t1, t2 \in Threads :
    ~(/\ WaitsFor(t1) # "none"
      /\ WaitsFor(t2) # "none"
      /\ HolderOf(WaitsFor(t1)) = t2
      /\ HolderOf(WaitsFor(t2)) = t1)
MeshBeforeMap ==
  \A t \in Threads : map_mutex_ = t => WaitsFor(t) # "mesh"
C21_OwnersAreRegistered ==
  /\ \A b \in Blocks : map_layer[b] # NoObject => map_layer[b] \in IdSet
  /\ pc["frame"] = "reward_locked" => RewardLookupMisses = {}

C21_Witness ==
  /\ ~using_ground_truth_segmentation_
  /\ At("frame", "reward_locked")
  /\ next_id = 3
  /\ Cardinality(IdSet) = 1
  /\ \E b \in Blocks : map_layer[b] \in IdSet
  /\ \E b \in Blocks : map_layer[b] = NoObject

\* C22: a segment whose identity has no ObjectVolume when trackObjects
\* reaches it causes no registration and no transformLayer /
\* accumulateTransform, for itself or for its object, in that frame; the
\* object was not in the Map when the frame arrived and is created by the
\* fusion of the frame. Every registration and pose update concerns an
\* object of the registry, and with ground-truth segmentation one that was
\* in the Map, fused, when the frame arrived.
C22_UnknownObjectsNotTracked ==
  pre.taken =>
    /\ \A k \in CallsOf({"no_volume"}) :
         /\ \A l \in CallsOf(RegistrationOps \cup PoseUpdateOps \cup {"ground_truth"}) :
              calls[l].i # calls[k].i /\ calls[l].id # calls[k].id
         /\ calls[k].id \notin DOMAIN pre.object_volumes
         /\ pc["frame"] = "unlock" =>
              /\ FusionsOf(calls[k].id) # {}
              /\ calls[k].id \in IdSet
              /\ object_volumes[calls[k].id].pose = Identity
    /\ \A l \in CallsOf(RegistrationOps \cup PoseUpdateOps \cup {"ground_truth"}) :
         /\ calls[l].id \in IdSet
         /\ using_ground_truth_segmentation_ => HadSurfaceAtArrival(calls[l].id)
    /\ using_ground_truth_segmentation_ =>
         \A k \in CallsOf(TrackOutcomeOps) :
           calls[k].id \notin DOMAIN pre.object_volumes => calls[k].op = "no_volume"

C22_Witness ==
  /\ using_ground_truth_segmentation_
  /\ ground_truth_tracking_
  /\ At("frame", "unlock")
  /\ Len(current_frame_segments_) = 2
  /\ \E k, l \in CallsOf({"no_volume"}) :
       /\ calls[k].i = 1
       /\ calls[l].i = 2
       /\ calls[k].id = calls[l].id
       /\ current_frame_movements_[1].first
       /\ FusionsOf(calls[k].id) # {}

\* C23: with ground-truth tracking no transformLayer / accumulateTransform
\* call is made for a segment whose is_moved flag is false, whatever the
\* segmentation mode.
IsMoved(i) ==
  \E m \in 1..Len(current_frame_movements_) :
    /\ current_frame_movements_[m].entry = current_frame_segments_[i].entry
    /\ current_frame_movements_[m].first
C23_UnmovedSegmentsNotTransformed ==
  (ground_truth_tracking_ /\ pre.taken) =>
    \A k \in CallsOf(PoseUpdateOps) : IsMoved(calls[k].i)

\* C24: with inferred segmentation a segment whose label and whose object's
\* stored label are both Background, or that has more than 100000 points,
\* causes no registration and no pose update, and when tracking and fusion
\* have ended its object has the pose it had when the frame arrived.
C24_GatedSegmentsKeepPose ==
  (~using_ground_truth_segmentation_ /\ pre.taken) =>
    \A k \in CallsOf({"gated"}) :
      /\ \A l \in CallsOf(RegistrationOps \cup PoseUpdateOps \cup {"ground_truth"}) :
           calls[l].i # calls[k].i
      /\ At("frame", "unlock") =>
           object_volumes[calls[k].id].pose = PoseAtArrival(calls[k].id)

\* C25: in every Reward published, number_of_voxels is the sum of
\* number_of_unknown_voxels, number_of_occupied_voxels and
\* number_of_free_voxels, every voxel of every allocated block is counted,
\* and number_of_objects is the number of entries of the registry at the
\* time of the call.
C25_RewardCountsPartition ==
  [][(reward_pub_'.published /\ reward_pub_' # reward_pub_) =>
       /\ reward_pub_'.number_of_voxels =
            reward_pub_'.number_of_unknown_voxels
            + reward_pub_'.number_of_occupied_voxels
            + reward_pub_'.number_of_free_voxels
       /\ reward_pub_'.number_of_voxels % VoxelsPerBlock = 0
       /\ reward_pub_'.number_of_voxels >= VoxelsPerBlock * Cardinality(OwnedBlocks)
       /\ reward_pub_'.number_of_objects = Cardinality(IdSet)]_vars

C25_Witness ==
  /\ At("frame", "publish_map")
  /\ reward_pub_.published
  /\ reward_pub_.number_of_objects = 1
  /\ reward_pub_.number_of_voxels = 2 * VoxelsPerBlock
  /\ reward_pub_.number_of_unknown_voxels = VoxelsPerBlock
  /\ reward_pub_.number_of_occupied_voxels > 0
  /\ reward_pub_.number_of_free_voxels > 0

====
